---- MODULE Spec2Model ----
(***************************************************************************)
(* Admin review workflow of the encroachment backend.                      *)
(*                                                                         *)
(* The encroachments table (database.py) is a sequence of rows indexed by  *)
(* the AUTOINCREMENT id.  The AdminReview service (admin_review.py) and    *)
(* the validating HTTP routes (app.py) act on it.                          *)
(*                                                                         *)
(* Text is a sequence of tokens: a token is either one whitespace          *)
(* character or a chunk of non-whitespace characters, so that str.strip()  *)
(* and string concatenation are computed the way Python computes them.     *)
(***************************************************************************)
EXTENDS Integers, Sequences, FiniteSets, TLC

VARIABLES
    encroachments,  \* the encroachments table: row i has id i
    now,            \* the wall clock
    last,           \* the most recent completed call and its return value
    calls,          \* the calls in flight, one per admin session
    applied,        \* the sessions whose UPDATE was committed, in commit order
    detections,     \* the detections table: row i holds the buildings of run i
    view            \* what the most recent read-only call was given and returned

vars == <<encroachments, now, last, calls, applied, detections, view>>

inflight == <<calls, applied>>

(* ---------------------------------------------------------------- bounds *)
MaxTime == 2
MaxNotes == 2
MaxBulkLen == 2
NumSessions == 2
MaxCoord == 2
MaxRuns == 2
MaxPercent == 200
DayLength == 2
MaxStamp == 4

(* ------------------------------------------------------------------ text *)
\* Python None as a text argument, and SQL NULL as read back through dict(row).
PyNone == <<"<None>">>

Whitespace == {" ", "\n", "\t"}

\* Python truthiness of an optional string: None and "" are falsy.
Truthy(s) == s # PyNone /\ s # <<>>

\* Mutant: `x if x is not None else default` keeps an empty string.
OrDefault_NoneOnly(s, d) == IF s # PyNone THEN s ELSE d

\* `x or default`
OrDefault(s, d) == IF Truthy(s) THEN s ELSE d

\* str(x) as an f-string field formats it: None becomes the text "None".
Format(s) == IF s = PyNone THEN <<"None">> ELSE s

RECURSIVE lstrip(_)
lstrip(s) == IF s # <<>> /\ Head(s) \in Whitespace THEN lstrip(Tail(s)) ELSE s

RECURSIVE rstrip(_)
rstrip(s) ==
    IF s # <<>> /\ s[Len(s)] \in Whitespace THEN rstrip(SubSeq(s, 1, Len(s) - 1)) ELSE s

\* str.strip(): drops leading and trailing whitespace of the whole string.
strip(s) == rstrip(lstrip(s))

\* datetime.now().strftime('%Y-%m-%d %H:%M') inside the brackets of a note line.
strftime(t) == <<"[", ToString(t), "]">>

DefaultApprove == <<"Encroachment confirmed by admin review">>
DefaultReject == <<"Marked as false positive">>
DefaultSiteVisit == <<"Site visit requested for verification">>

(* ----------------------------------------------------------------- table *)
\* verified_by / verified_at columns have no default: a new row holds NULL.
NullUser == "NULL"
NullAt == 0

Admins == {"admin1", "admin2"}

Statuses == {"pending", "confirmed", "false_positive", "site_visit_required"}

\* An id value the sqlite3 driver cannot bind as a statement parameter.
Unbindable == 0 - 1

\* Mutant: the tier boundaries are exclusive.
determine_severity_Exclusive(overlap_percentage) ==
    IF overlap_percentage > 50 THEN "high"
    ELSE IF overlap_percentage > 25 THEN "medium"
    ELSE "low"

\* determine_severity
determine_severity(overlap_percentage) ==
    IF overlap_percentage >= 50 THEN "high"
    ELSE IF overlap_percentage >= 25 THEN "medium"
    ELSE "low"

\* INSERT INTO encroachments: the six supplied columns, defaults for the rest.
create_encroachment(t, detection_id, building_id, is_encroachment, overlap_percentage, zone_name, severity, at) ==
    Append(t, [id |-> Len(t) + 1,
               detection_id |-> detection_id,
               building_id |-> building_id,
               is_encroachment |-> is_encroachment,
               overlap_percentage |-> overlap_percentage,
               zone_name |-> zone_name,
               severity |-> severity,
               status |-> "pending",
               remarks |-> PyNone,
               verified_by |-> NullUser,
               verified_at |-> NullAt,
               created_at |-> at])

\* The statement raises when a parameter cannot be bound.
Raises(encroachment_id) == encroachment_id = Unbindable

Exists(t, encroachment_id) == encroachment_id \in 1..Len(t)

\* SELECT * FROM encroachments WHERE id = ?
get_encroachment(t, encroachment_id) == t[encroachment_id]

\* Mutant: the UPDATE leaves the remarks column out.
verify_encroachment_NoRemarks(t, encroachment_id, user_id, status, remarks, at) ==
    IF Exists(t, encroachment_id)
    THEN [t EXCEPT ![encroachment_id].status = status,
                   ![encroachment_id].verified_by = user_id,
                   ![encroachment_id].verified_at = at]
    ELSE t

\* Mutant: the UPDATE has no WHERE clause and writes every row.
verify_encroachment_AllRows(t, encroachment_id, user_id, status, remarks, at) ==
    [i \in DOMAIN t |-> [t[i] EXCEPT !.status = status,
                                      !.remarks = remarks,
                                      !.verified_by = user_id,
                                      !.verified_at = at]]

\* UPDATE encroachments SET status, remarks, verified_by, verified_at WHERE id = ?
\* One statement, one commit; a WHERE that matches no row updates nothing.
verify_encroachment(t, encroachment_id, user_id, status, remarks, at) ==
    IF Exists(t, encroachment_id)
    THEN [t EXCEPT ![encroachment_id].status = status,
                   ![encroachment_id].remarks = remarks,
                   ![encroachment_id].verified_by = user_id,
                   ![encroachment_id].verified_at = at]
    ELSE t

(* -------------------------------------------------------------- geometry *)
\* config.py: Config.OVERLAP_THRESHOLD and Config.PUBLIC_ZONES.
OVERLAP_THRESHOLD == 10

PUBLIC_ZONES ==
    << [name |-> "Public Park Zone A", type |-> "park",
        coordinates |-> <<100, 100, 500, 500>>],
       [name |-> "Government Reserve Zone", type |-> "government",
        coordinates |-> <<600, 100, 1000, 500>>],
       [name |-> "Road Reserve", type |-> "road",
        coordinates |-> <<100, 600, 500, 800>>] >>

max(a, b) == IF a >= b THEN a ELSE b

min(a, b) == IF a <= b THEN a ELSE b

\* Mutant: the intersection dimensions are not clamped at zero.
calculate_rectangle_intersection_NoClamp(rect1, rect2) ==
    LET intersect_left == max(rect1[1], rect2[1])
        intersect_top == max(rect1[2], rect2[2])
        intersect_right == min(rect1[1] + rect1[3], rect2[1] + rect2[3])
        intersect_bottom == min(rect1[2] + rect1[4], rect2[2] + rect2[4])
    IN (intersect_right - intersect_left) * (intersect_bottom - intersect_top)

\* calculate_rectangle_intersection: rectangles are (x, y, width, height).
\* Nothing is validated and nothing is raised for integer tuples.
calculate_rectangle_intersection(rect1, rect2) ==
    LET x1 == rect1[1]
        y1 == rect1[2]
        w1 == rect1[3]
        h1 == rect1[4]
        x2 == rect2[1]
        y2 == rect2[2]
        w2 == rect2[3]
        h2 == rect2[4]
        rect1_right == x1 + w1
        rect1_bottom == y1 + h1
        rect2_right == x2 + w2
        rect2_bottom == y2 + h2
        intersect_left == max(x1, x2)
        intersect_top == max(y1, y2)
        intersect_right == min(rect1_right, rect2_right)
        intersect_bottom == min(rect1_bottom, rect2_bottom)
        intersect_width == max(0, intersect_right - intersect_left)
        intersect_height == max(0, intersect_bottom - intersect_top)
    IN intersect_width * intersect_height

\* zone_rect = (zone_x, zone_y, zone_x2 - zone_x, zone_y2 - zone_y)
zone_rect(zone) ==
    <<zone.coordinates[1], zone.coordinates[2],
      zone.coordinates[3] - zone.coordinates[1],
      zone.coordinates[4] - zone.coordinates[2]>>

\* (intersection_area / building_area) * 100.  The inputs of the model are
\* chosen so that the quotient is a whole number (see Exact), where the float
\* arithmetic of the code gives the same value.
overlap_percentage_of(intersection_area, building_area) ==
    (intersection_area * 100) \div building_area

\* check_building_overlap: one overlap per zone with intersection_area > 0, in
\* zone order.  The percentage is taken against building['area'], the contour
\* area the detector reports, not against the area of the bbox.
check_building_overlap(building) ==
    LET overlap(zone) ==
            LET intersection_area ==
                    calculate_rectangle_intersection(building.bbox, zone_rect(zone))
            IN [zone_name |-> zone.name,
                zone_type |-> zone.type,
                intersection_area |-> intersection_area,
                overlap_percentage |->
                    IF intersection_area > 0
                    THEN overlap_percentage_of(intersection_area, building.area)
                    ELSE 0,
                zone_coordinates |-> zone.coordinates]
        all == [k \in DOMAIN PUBLIC_ZONES |-> overlap(PUBLIC_ZONES[k])]
    IN SelectSeq(all, LAMBDA o : o.intersection_area > 0)

\* Mutant: only an overlap strictly above the threshold is flagged.
building_encroachments_Strict(building) ==
    LET overlaps == check_building_overlap(building)
        kept == SelectSeq(overlaps, LAMBDA o : o.overlap_percentage > OVERLAP_THRESHOLD)
    IN [k \in DOMAIN kept |->
            [building_id |-> building.id,
             building_bbox |-> building.bbox,
             building_area |-> building.area,
             building_center |-> building.center,
             zone_name |-> kept[k].zone_name,
             zone_type |-> kept[k].zone_type,
             intersection_area |-> kept[k].intersection_area,
             overlap_percentage |-> kept[k].overlap_percentage,
             severity |-> determine_severity(kept[k].overlap_percentage),
             is_encroachment |-> TRUE]]

\* Mutant: every overlap is flagged, whatever its percentage.
building_encroachments_NoFilter(building) ==
    LET kept == check_building_overlap(building)
    IN [k \in DOMAIN kept |->
            [building_id |-> building.id,
             building_bbox |-> building.bbox,
             building_area |-> building.area,
             building_center |-> building.center,
             zone_name |-> kept[k].zone_name,
             zone_type |-> kept[k].zone_type,
             intersection_area |-> kept[k].intersection_area,
             overlap_percentage |-> kept[k].overlap_percentage,
             severity |-> determine_severity(kept[k].overlap_percentage),
             is_encroachment |-> TRUE]]

\* check_encroachments, body of the loop over buildings: one record per overlap
\* with overlap_pct >= self.overlap_threshold.
building_encroachments(building) ==
    LET overlaps == check_building_overlap(building)
        kept == SelectSeq(overlaps, LAMBDA o : o.overlap_percentage >= OVERLAP_THRESHOLD)
    IN [k \in DOMAIN kept |->
            [building_id |-> building.id,
             building_bbox |-> building.bbox,
             building_area |-> building.area,
             building_center |-> building.center,
             zone_name |-> kept[k].zone_name,
             zone_type |-> kept[k].zone_type,
             intersection_area |-> kept[k].intersection_area,
             overlap_percentage |-> kept[k].overlap_percentage,
             severity |-> determine_severity(kept[k].overlap_percentage),
             is_encroachment |-> TRUE]]

RECURSIVE check_encroachments(_)
check_encroachments(buildings) ==
    IF buildings = <<>> THEN <<>>
    ELSE building_encroachments(Head(buildings)) \o check_encroachments(Tail(buildings))

(* --------------------------------------------------------------- inputs *)
\* Ids a caller may pass: the stored ones, one that matches no row, one that
\* cannot be bound.
IdInputs == {1, 2, Unbindable}

TableIdInputs == {1, 2, 3, Unbindable}

TextInputs == {PyNone, <<>>, <<" ", "a">>}

NoteInputs == {PyNone, <<>>, <<"n">>}

\* Notes handed to add_review_note directly.
ServiceNoteInputs == {PyNone, <<"n">>}

RECURSIVE SeqsUpTo(_, _)
SeqsUpTo(S, n) ==
    IF n = 0 THEN {<<>>}
    ELSE LET shorter == SeqsUpTo(S, n - 1)
         IN shorter \cup {Append(s, x) : s \in {q \in shorter : Len(q) = n - 1}, x \in S}

BulkInputs == SeqsUpTo(TableIdInputs, MaxBulkLen)

\* A building as detect_buildings reports it: the bounding box of the contour,
\* the contour's own area, and the centre of the box.
Building(id, bbox, area) ==
    [id |-> id, bbox |-> bbox, area |-> area,
     center |-> <<bbox[1] + bbox[3] \div 2, bbox[2] + bbox[4] \div 2>>]

\* The sample buildings of encroachment.py's self-test.
SampleBuildings ==
    << Building(0, <<150, 150, 200, 200>>, 40000),
       Building(1, <<650, 150, 200, 200>>, 40000),
       Building(2, <<1100, 150, 200, 200>>, 40000) >>

\* What one detection run hands to create_encroachment (app.py, detection route).
DetectedOne == check_encroachments(<<SampleBuildings[1]>>)

DetectedTwo == check_encroachments(<<SampleBuildings[1], SampleBuildings[2]>>)

\* Footprints a detection result can hold: inside a zone, outside every zone,
\* touching one zone along an edge while half inside another, exactly at and
\* just below the threshold, across two zones, and a contour (a triangle) that
\* fills half of its bounding box.
FootprintPool ==
    { [bbox |-> <<150, 150, 200, 200>>, area |-> 40000],
      [bbox |-> <<1100, 150, 200, 200>>, area |-> 40000],
      [bbox |-> <<500, 150, 200, 200>>, area |-> 40000],
      [bbox |-> <<10, 150, 100, 100>>, area |-> 10000],
      [bbox |-> <<5, 150, 100, 100>>, area |-> 10000],
      [bbox |-> <<150, 400, 100, 400>>, area |-> 40000],
      [bbox |-> <<150, 150, 200, 200>>, area |-> 20000] }

\* The percentage of the footprint against every zone is a whole number.
Exact(f) ==
    \A k \in DOMAIN PUBLIC_ZONES :
        (calculate_rectangle_intersection(f.bbox, zone_rect(PUBLIC_ZONES[k])) * 100) % f.area = 0

Footprints == {f \in FootprintPool : Exact(f)}

\* Detection results of no, one or two buildings; ids count from 0.
DetectionInputs ==
    {<<>>}
    \cup {<<Building(0, f.bbox, f.area)>> : f \in Footprints}
    \cup {<<Building(0, f.bbox, f.area), Building(1, g.bbox, g.area)>> :
             f \in Footprints, g \in Footprints}

\* Rectangles on a small grid, among them widths and heights of 0 and -1.
Coords == 0..MaxCoord

Extents == (0 - 1)..MaxCoord

Rects == {<<x, y, w, h>> : x \in Coords, y \in Coords, w \in Extents, h \in Extents}

Percentages == 0..MaxPercent

(* ----------------------------------------------------------- last call *)
\* The most recent call and what it returned.
NoCall == [op |-> "none", id |-> 0, ret |-> FALSE,
           ids |-> <<>>, success_count |-> 0, failed_ids |-> <<>>]

Call(op, id, ret) == [NoCall EXCEPT !.op = op, !.id = id, !.ret = ret]

\* No read-only call has been made yet.
NoView == [op |-> "none"]

(* ------------------------------------------------------- calls in flight *)
\* Concurrent requests: Flask serves each request on its own thread, and every
\* database call opens its own connection.
Sessions == 1..NumSessions

\* The admin account a session is logged in with.
AdminOf(p) == IF p % 2 = 1 THEN "admin1" ELSE "admin2"

Idle == [pc |-> "idle", op |-> "none", note |-> PyNone,
         status |-> "pending", remarks |-> PyNone, at |-> NullAt]

ConcTextInputs == {PyNone, <<"a">>}

ConcNoteInputs == {<<"n">>, <<"m">>}

(* ------------------------------------------------------------------ Init *)
Init ==
    /\ encroachments = <<>>
    /\ now = 1
    /\ last = NoCall
    /\ calls = [p \in Sessions |-> Idle]
    /\ applied = <<>>
    /\ detections = <<>>
    /\ view = NoView

(* --------------------------------------------------------------- actions *)
\* Wall-clock time passes.
Tick ==
    /\ now < MaxTime
    /\ now' = now + 1
    /\ UNCHANGED <<encroachments, last, inflight, detections, view>>

\* app.py detection route: for enc in enc_result['encroachments']: create_encroachment(...)
RECURSIVE save_encroachments(_, _, _, _)
save_encroachments(t, detection_id, detected, at) ==
    IF detected = <<>> THEN t
    ELSE LET enc == Head(detected)
         IN save_encroachments(create_encroachment(t, detection_id, enc.building_id, 1,
                                                   enc.overlap_percentage, enc.zone_name,
                                                   enc.severity, at),
                               detection_id, Tail(detected), at)

\* One detection run: every flagged overlap of the run is saved, in order.
\* The run (detection 1) is processed once.
SaveEncroachments(detected) ==
    /\ \A i \in 1..Len(encroachments) : encroachments[i].detection_id # 1
    /\ encroachments' = save_encroachments(encroachments, 1, detected, now)
    /\ last' = Call("create", Len(encroachments'), TRUE)
    /\ UNCHANGED <<now, inflight, detections, view>>

\* Mutant: a forward-only workflow that refuses a record already disposed of.
Transition_ForwardOnly(t, encroachment_id, admin_user_id, status, remarks, default, at) ==
    IF Raises(encroachment_id)
    THEN [table |-> t, ret |-> FALSE]
    ELSE IF Exists(t, encroachment_id) /\ t[encroachment_id].status # "pending"
    THEN [table |-> t, ret |-> FALSE]
    ELSE [table |-> verify_encroachment(t, encroachment_id, admin_user_id, status,
                                        OrDefault(remarks, default), at),
          ret |-> TRUE]

\* The three status-setting methods share one shape: try verify_encroachment with
\* `remarks or <default>`, return True; on an exception return False.
Transition(t, encroachment_id, admin_user_id, status, remarks, default, at) ==
    IF Raises(encroachment_id)
    THEN [table |-> t, ret |-> FALSE]
    ELSE [table |-> verify_encroachment(t, encroachment_id, admin_user_id, status,
                                        OrDefault(remarks, default), at),
          ret |-> TRUE]

approve_encroachment(t, encroachment_id, admin_user_id, remarks, at) ==
    Transition(t, encroachment_id, admin_user_id, "confirmed", remarks, DefaultApprove, at)

reject_encroachment(t, encroachment_id, admin_user_id, remarks, at) ==
    Transition(t, encroachment_id, admin_user_id, "false_positive", remarks, DefaultReject, at)

request_site_visit(t, encroachment_id, admin_user_id, remarks, at) ==
    Transition(t, encroachment_id, admin_user_id, "site_visit_required", remarks,
               DefaultSiteVisit, at)

\* add_review_note: read the row, build the new remarks, write all four columns.
NoteLines(s) == Cardinality({i \in 1..Len(s) : s[i] = "\n"})

\* Mutant: the note line replaces the remarks.
new_remarks_Replace(existing_remarks, timestamp, note) ==
    strip(timestamp \o <<" ">> \o Format(note))

new_remarks(existing_remarks, timestamp, note) ==
    strip(Format(existing_remarks) \o <<"\n">> \o timestamp \o <<" ">> \o Format(note))

add_review_note(t, encroachment_id, admin_user_id, note, at) ==
    IF Raises(encroachment_id) \/ ~Exists(t, encroachment_id)
    THEN [table |-> t, ret |-> FALSE]
    ELSE LET enc == get_encroachment(t, encroachment_id) IN
         [table |-> verify_encroachment(t, encroachment_id, admin_user_id, enc.status,
                                        new_remarks(enc.remarks, strftime(at), note), at),
          ret |-> TRUE]

\* Mutant: the loop ends at the first failure.
RECURSIVE bulk_approve_Abort(_, _, _, _, _, _)
bulk_approve_Abort(t, encroachment_ids, admin_user_id, remarks, at, results) ==
    IF encroachment_ids = <<>>
    THEN [table |-> t, results |-> results]
    ELSE LET enc_id == Head(encroachment_ids)
             res == Transition(t, enc_id, admin_user_id, "confirmed", remarks,
                               DefaultApprove, at)
         IN IF res.ret
            THEN bulk_approve_Abort(res.table, Tail(encroachment_ids), admin_user_id, remarks,
                                    at, [results EXCEPT !.success_count = @ + 1])
            ELSE [table |-> t, results |-> [results EXCEPT !.failed_ids = Append(@, enc_id)]]

\* Mutant: a failed id is listed once however often it occurs.
RECURSIVE bulk_approve_ListOnce(_, _, _, _, _, _)
bulk_approve_ListOnce(t, encroachment_ids, admin_user_id, remarks, at, results) ==
    IF encroachment_ids = <<>>
    THEN [table |-> t, results |-> results]
    ELSE LET enc_id == Head(encroachment_ids)
             res == Transition(t, enc_id, admin_user_id, "confirmed", remarks,
                               DefaultApprove, at)
         IN bulk_approve_ListOnce(res.table, Tail(encroachment_ids), admin_user_id, remarks, at,
                IF res.ret
                THEN [results EXCEPT !.success_count = @ + 1]
                ELSE IF \E k \in DOMAIN results.failed_ids : results.failed_ids[k] = enc_id
                THEN results
                ELSE [results EXCEPT !.failed_ids = Append(@, enc_id)])

\* bulk_approve: approve each id in turn, count the True results, list the others.
RECURSIVE bulk_approve(_, _, _, _, _, _)
bulk_approve(t, encroachment_ids, admin_user_id, remarks, at, results) ==
    IF encroachment_ids = <<>>
    THEN [table |-> t, results |-> results]
    ELSE LET enc_id == Head(encroachment_ids)
             res == approve_encroachment(t, enc_id, admin_user_id, remarks, at)
         IN bulk_approve(res.table, Tail(encroachment_ids), admin_user_id, remarks, at,
                         IF res.ret
                         THEN [results EXCEPT !.success_count = @ + 1]
                         ELSE [results EXCEPT !.failed_ids = Append(@, enc_id)])

Approve(id, a, r) ==
    LET res == approve_encroachment(encroachments, id, a, r, now) IN
    /\ encroachments' = res.table
    /\ last' = Call("approve", id, res.ret)
    /\ UNCHANGED <<now, inflight, detections, view>>

RejectService(id, a, r) ==
    LET res == reject_encroachment(encroachments, id, a, r, now) IN
    /\ encroachments' = res.table
    /\ last' = Call("reject", id, res.ret)
    /\ UNCHANGED <<now, inflight, detections, view>>

SiteVisit(id, a, r) ==
    LET res == request_site_visit(encroachments, id, a, r, now) IN
    /\ encroachments' = res.table
    /\ last' = Call("site_visit", id, res.ret)
    /\ UNCHANGED <<now, inflight, detections, view>>

AddNote(id, a, n) ==
    LET res == add_review_note(encroachments, id, a, n, now) IN
    /\ Exists(encroachments, id) => NoteLines(encroachments[id].remarks) < MaxNotes
    /\ encroachments' = res.table
    /\ last' = Call("note", id, res.ret)
    /\ UNCHANGED <<now, inflight, detections, view>>

BulkApprove(ids, a, r) ==
    LET res == bulk_approve(encroachments, ids, a, r, now,
                            [success_count |-> 0, failed_ids |-> <<>>]) IN
    /\ encroachments' = res.table
    /\ last' = [NoCall EXCEPT !.op = "bulk", !.ids = ids,
                              !.success_count = res.results.success_count,
                              !.failed_ids = res.results.failed_ids]
    /\ UNCHANGED <<now, inflight, detections, view>>

\* POST /api/admin/review/<id>/reject: 400 unless remarks are present and non-empty.
\* The id comes from an <int:...> URL segment.
admin_reject(id, a, r) ==
    /\ id # Unbindable
    /\ IF ~Truthy(r)
       THEN /\ last' = Call("route_reject", id, FALSE)
            /\ UNCHANGED <<encroachments, now, inflight, detections, view>>
       ELSE LET res == reject_encroachment(encroachments, id, a, r, now) IN
            /\ encroachments' = res.table
            /\ last' = Call("route_reject", id, res.ret)
            /\ UNCHANGED <<now, inflight, detections, view>>

\* POST /api/admin/review/<id>/note: 400 unless note is present and non-empty.
admin_add_note(id, a, n) ==
    /\ id # Unbindable
    /\ IF ~Truthy(n)
       THEN /\ last' = Call("route_note", id, FALSE)
            /\ UNCHANGED <<encroachments, now, inflight, detections, view>>
       ELSE LET res == add_review_note(encroachments, id, a, n, now) IN
            /\ Exists(encroachments, id) => NoteLines(encroachments[id].remarks) < MaxNotes
            /\ encroachments' = res.table
            /\ last' = Call("route_note", id, res.ret)
            /\ UNCHANGED <<now, inflight, detections, view>>

\* The life of the one record a detection run flagged: every single-record
\* operation, by any admin, on the stored id, an unknown id or an unbindable one.
Next ==
    \/ Tick
    \/ SaveEncroachments(DetectedOne)
    \/ \E id \in IdInputs, a \in Admins, r \in TextInputs : Approve(id, a, r)
    \/ \E id \in IdInputs, a \in Admins, r \in TextInputs : RejectService(id, a, r)
    \/ \E id \in IdInputs, a \in Admins, r \in TextInputs : SiteVisit(id, a, r)
    \/ \E id \in IdInputs, a \in Admins, n \in ServiceNoteInputs : AddNote(id, a, n)
    \/ \E id \in IdInputs, a \in Admins, r \in TextInputs : admin_reject(id, a, r)
    \/ \E id \in IdInputs, a \in Admins, n \in NoteInputs : admin_add_note(id, a, n)

Spec == Init /\ [][Next]_vars

\* A run that flagged two records, reviewed one by one and in bulk.
NextTable ==
    \/ SaveEncroachments(DetectedTwo)
    \/ \E id \in TableIdInputs, a \in Admins : Approve(id, a, PyNone)
    \/ \E id \in TableIdInputs, a \in Admins : RejectService(id, a, <<"a">>)
    \/ \E ids \in BulkInputs, a \in Admins : BulkApprove(ids, a, PyNone)

SpecTable == Init /\ [][NextTable]_vars

(* ------------------------------------------------------ concurrent calls *)
\* A session calls approve / reject / request_site_visit on record 1: the
\* arguments of verify_encroachment are evaluated, the UPDATE is not yet executed.
BeginTransition(p, op, status, remarks, default) ==
    /\ calls[p].pc = "idle"
    /\ calls' = [calls EXCEPT ![p] = [Idle EXCEPT !.pc = "write", !.op = op,
                                                  !.status = status,
                                                  !.remarks = OrDefault(remarks, default),
                                                  !.at = now]]
    /\ UNCHANGED <<encroachments, now, last, applied, detections, view>>

BeginApprove(p) ==
    \E r \in ConcTextInputs : BeginTransition(p, "approve", "confirmed", r, DefaultApprove)

BeginReject(p) ==
    \E r \in ConcTextInputs : BeginTransition(p, "reject", "false_positive", r, DefaultReject)

BeginSiteVisit(p) ==
    \E r \in ConcTextInputs :
        BeginTransition(p, "site_visit", "site_visit_required", r, DefaultSiteVisit)

\* A session calls add_review_note on record 1.
BeginNote(p) ==
    /\ calls[p].pc = "idle"
    /\ \E n \in ConcNoteInputs :
         calls' = [calls EXCEPT ![p] = [Idle EXCEPT !.pc = "read", !.op = "note", !.note = n]]
    /\ UNCHANGED <<encroachments, now, last, applied, detections, view>>

\* add_review_note, first database call: get_encroachment; then the new remarks
\* and the arguments of verify_encroachment are computed from the row just read.
NoteRead(p) ==
    /\ calls[p].pc = "read"
    /\ IF ~Exists(encroachments, 1)
       THEN calls' = [calls EXCEPT ![p].pc = "done"]
       ELSE LET enc == get_encroachment(encroachments, 1) IN
            /\ NoteLines(enc.remarks) < MaxNotes
            /\ calls' = [calls EXCEPT ![p].pc = "write",
                                      ![p].status = enc.status,
                                      ![p].remarks = new_remarks(enc.remarks, strftime(now),
                                                                 calls[p].note),
                                      ![p].at = now]
    /\ UNCHANGED <<encroachments, now, last, applied, detections, view>>

\* verify_encroachment: the UPDATE and its commit.
ApplyUpdate(p) ==
    /\ calls[p].pc = "write"
    /\ encroachments' = verify_encroachment(encroachments, 1, AdminOf(p), calls[p].status,
                                            calls[p].remarks, calls[p].at)
    /\ calls' = [calls EXCEPT ![p].pc = "done"]
    /\ applied' = IF Exists(encroachments, 1) THEN Append(applied, p) ELSE applied
    /\ UNCHANGED <<now, last, detections, view>>

NextConc ==
    \/ Tick
    \/ SaveEncroachments(DetectedOne)
    \/ \E p \in Sessions : BeginApprove(p)
    \/ \E p \in Sessions : BeginReject(p)
    \/ \E p \in Sessions : BeginSiteVisit(p)
    \/ \E p \in Sessions : BeginNote(p)
    \/ \E p \in Sessions : NoteRead(p)
    \/ \E p \in Sessions : ApplyUpdate(p)

SpecConc == Init /\ [][NextConc]_vars

(* ---------------------------------------------------- detection pipeline *)
\* POST /api/detection/run: the detection is stored, its buildings are checked
\* against the public zones, and every flagged overlap is saved.
run_detection(buildings) ==
    /\ detections' = Append(detections, buildings)
    /\ encroachments' = save_encroachments(encroachments, Len(detections) + 1,
                                           check_encroachments(buildings), now)
    /\ last' = Call("create", Len(encroachments'), TRUE)
    /\ UNCHANGED <<now, inflight, view>>

DetectIdInputs == {1, 2}

DetectBulkInputs == SeqsUpTo(DetectIdInputs, MaxBulkLen)

\* The one uploaded image is analysed once, with any of the detection results;
\* the admin operations act on the first two ids.
NextDetect ==
    \/ detections = <<>> /\ \E buildings \in DetectionInputs : run_detection(buildings)
    \/ \E id \in DetectIdInputs : Approve(id, "admin1", PyNone)
    \/ \E id \in DetectIdInputs : RejectService(id, "admin2", <<"a">>)
    \/ \E id \in DetectIdInputs : SiteVisit(id, "admin1", PyNone)
    \/ \E id \in DetectIdInputs : AddNote(id, "admin2", <<"n">>)
    \/ \E ids \in DetectBulkInputs : BulkApprove(ids, "admin1", PyNone)

SpecDetect == Init /\ [][NextDetect]_vars

(* -------------------------------------------------------- priority queue *)
\* The order of the severity column as text: 'high' < 'low' < 'medium'.
TextRank(severity) ==
    CASE severity = "high" -> 1
      [] severity = "low" -> 2
      [] severity = "medium" -> 3

\* ORDER BY severity DESC, created_at DESC over the rows S of the table: every
\* order in which the next row is one that no remaining row must precede; SQL
\* leaves the order of rows with equal keys open.
RECURSIVE order_by_severity_created(_, _)
order_by_severity_created(t, S) ==
    IF S = {} THEN {<<>>}
    ELSE LET first == {x \in S : \A y \in S :
                          \/ TextRank(t[x].severity) > TextRank(t[y].severity)
                          \/ /\ t[x].severity = t[y].severity
                             /\ t[x].created_at >= t[y].created_at}
         IN UNION {{<<t[x]>> \o p : p \in order_by_severity_created(t, S \ {x})} : x \in first}

\* ORDER BY created_at DESC over the rows S of the table.
RECURSIVE order_by_created(_, _)
order_by_created(t, S) ==
    IF S = {} THEN {<<>>}
    ELSE LET first == {x \in S : \A y \in S : t[x].created_at >= t[y].created_at}
         IN UNION {{<<t[x]>> \o p : p \in order_by_created(t, S \ {x})} : x \in first}

\* Mutant: the query has no status condition.
get_pending_encroachments_AnyStatus(t) ==
    order_by_severity_created(t, {i \in DOMAIN t : t[i].is_encroachment = 1})

\* SELECT * FROM encroachments WHERE status = 'pending' AND is_encroachment = 1
\* ORDER BY severity DESC, created_at DESC: every order of the selected rows
\* that the two sort keys allow.
get_pending_encroachments(t) ==
    order_by_severity_created(
        t, {i \in DOMAIN t : t[i].status = "pending" /\ t[i].is_encroachment = 1})

\* _calculate_days_pending: 0 without a created_at, else (now - created).days;
\* the clock of the model counts days and the server keeps UTC (days_pending
\* below has the finer grain and the offset of the server's clock).
calculate_days_pending(created_at, at) ==
    IF created_at = NullAt THEN 0 ELSE at - created_at

\* Mutant: the severity points are given the other way round.
priority_score_LowFirst(enc, at) ==
    (IF enc.severity = "low" THEN 100 ELSE IF enc.severity = "medium" THEN 50 ELSE 0)
    + calculate_days_pending(enc.created_at, at)
    + enc.overlap_percentage

\* Severity points, one point per day pending, overlap points.
priority_score(enc, at) ==
    (IF enc.severity = "high" THEN 100 ELSE IF enc.severity = "medium" THEN 50 ELSE 0)
    + calculate_days_pending(enc.created_at, at)
    + enc.overlap_percentage

\* Mutant: an element is put in front of the elements of equal score.
RECURSIVE sort_reverse_Unstable(_)
sort_reverse_Unstable(s) ==
    IF s = <<>> THEN <<>>
    ELSE LET sorted == sort_reverse_Unstable(SubSeq(s, 1, Len(s) - 1))
             x == s[Len(s)]
             ahead == Cardinality({k \in DOMAIN sorted :
                                      sorted[k].priority_score > x.priority_score})
         IN SubSeq(sorted, 1, ahead) \o <<x>> \o SubSeq(sorted, ahead + 1, Len(sorted))

\* list.sort(key=priority_score, reverse=True): descending and stable, elements
\* of equal score keep the order they had.
RECURSIVE sort_reverse(_)
sort_reverse(s) ==
    IF s = <<>> THEN <<>>
    ELSE LET sorted == sort_reverse(SubSeq(s, 1, Len(s) - 1))
             x == s[Len(s)]
             ahead == Cardinality({k \in DOMAIN sorted :
                                      sorted[k].priority_score >= x.priority_score})
         IN SubSeq(sorted, 1, ahead) \o <<x>> \o SubSeq(sorted, ahead + 1, Len(sorted))

\* pending[:limit]: a negative limit counts from the end of the list.
slice_to(s, limit) ==
    IF limit >= 0 THEN SubSeq(s, 1, min(limit, Len(s)))
    ELSE SubSeq(s, 1, max(0, Len(s) + limit))

\* get_high_priority_cases on the rows get_pending_encroachments returned.
get_high_priority_cases(pending, limit, at) ==
    LET scored == [k \in DOMAIN pending |->
                      [priority_score |-> priority_score(pending[k], at)] @@ pending[k]]
    IN slice_to(sort_reverse(scored), limit)

\* GET /api/admin/priority-cases?limit=...
admin_get_priority_cases(limit) ==
    /\ \E pending \in get_pending_encroachments(encroachments) :
          view' = [op |-> "priority", limit |-> limit, pending |-> pending,
                   cases |-> get_high_priority_cases(pending, limit, now)]
    /\ UNCHANGED <<encroachments, now, last, inflight, detections>>

\* limit: the default of the route, none, fewer than there are, and a negative one.
LimitInputs == {10, 0, 1, 0 - 1}

\* Detection results that flag one overlap of each tier, or two at once.
QueueDetectionInputs ==
    { <<Building(0, <<10, 150, 100, 100>>, 10000)>>,
      <<Building(0, <<150, 30, 100, 100>>, 10000)>>,
      <<Building(0, <<500, 150, 200, 200>>, 40000)>>,
      <<Building(0, <<150, 400, 100, 400>>, 40000)>> }

\* Detection runs on different days, confirmations, and one read of the
\* priority queue at any point of that history.
NextQueue ==
    \/ view = NoView /\ Tick
    \/ /\ view = NoView
       /\ Len(detections) < MaxRuns
       /\ \E buildings \in QueueDetectionInputs : run_detection(buildings)
    \/ view = NoView /\ \E id \in DetectIdInputs : Approve(id, "admin1", PyNone)
    \/ view = NoView /\ \E limit \in LimitInputs : admin_get_priority_cases(limit)

SpecQueue == Init /\ [][NextQueue]_vars

(* ------------------------------------------------- review lists and counts *)
\* SELECT * FROM encroachments ORDER BY created_at DESC: every order of the
\* rows that the sort key allows.
get_all_encroachments(t) == order_by_created(t, DOMAIN t)

\* severity_order.get(severity, 3)
severity_order(severity) ==
    CASE severity = "high" -> 0
      [] severity = "medium" -> 1
      [] severity = "low" -> 2
      [] OTHER -> 3

\* Mutant: the list is returned the way the query supplied it.
get_pending_reviews_Unsorted(pending) == pending

\* get_pending_reviews: pending.sort(key=severity_order), ascending and stable.
RECURSIVE get_pending_reviews(_)
get_pending_reviews(pending) ==
    IF pending = <<>> THEN <<>>
    ELSE LET sorted == get_pending_reviews(SubSeq(pending, 1, Len(pending) - 1))
             x == pending[Len(pending)]
             ahead == Cardinality({k \in DOMAIN sorted :
                                      severity_order(sorted[k].severity)
                                          <= severity_order(x.severity)})
         IN SubSeq(sorted, 1, ahead) \o <<x>> \o SubSeq(sorted, ahead + 1, Len(sorted))

\* A quotient of two counts times 100, kept exact as a fraction: the float the
\* code computes is 100.0 when num = 100 * den and below 100.0 when
\* num < 100 * den, for every table that fits in a database.
Percent(part, whole) == [num |-> part * 100, den |-> whole]

\* Mutant: a requested site visit counts as verified.
get_verification_statistics_SiteVisitVerified(all_encroachments) ==
    LET Count(status) ==
            Cardinality({k \in DOMAIN all_encroachments :
                            all_encroachments[k].status = status})
        total == Len(all_encroachments)
    IN [total |-> total,
        pending |-> Count("pending"),
        confirmed |-> Count("confirmed"),
        false_positive |-> Count("false_positive"),
        site_visit |-> Count("site_visit_required"),
        by_severity |->
            [s \in {"high", "medium", "low"} |->
                Cardinality({k \in DOMAIN all_encroachments :
                                /\ all_encroachments[k].status = "pending"
                                /\ all_encroachments[k].is_encroachment # 0
                                /\ all_encroachments[k].severity = s})],
        verified_percentage |->
            IF total > 0
            THEN Percent(Count("confirmed") + Count("false_positive")
                         + Count("site_visit_required"), total)
            ELSE Percent(0, 1)]

\* Mutant: by_severity counts the records of every status.
get_verification_statistics_AllStatuses(all_encroachments) ==
    LET Count(status) ==
            Cardinality({k \in DOMAIN all_encroachments :
                            all_encroachments[k].status = status})
        total == Len(all_encroachments)
    IN [total |-> total,
        pending |-> Count("pending"),
        confirmed |-> Count("confirmed"),
        false_positive |-> Count("false_positive"),
        site_visit |-> Count("site_visit_required"),
        by_severity |->
            [s \in {"high", "medium", "low"} |->
                Cardinality({k \in DOMAIN all_encroachments :
                                /\ all_encroachments[k].is_encroachment # 0
                                /\ all_encroachments[k].severity = s})],
        verified_percentage |->
            IF total > 0
            THEN Percent(Count("confirmed") + Count("false_positive"), total)
            ELSE Percent(0, 1)]

\* get_verification_statistics: one pass over all records.
get_verification_statistics(all_encroachments) ==
    LET Count(status) ==
            Cardinality({k \in DOMAIN all_encroachments :
                            all_encroachments[k].status = status})
        total == Len(all_encroachments)
    IN [total |-> total,
        pending |-> Count("pending"),
        confirmed |-> Count("confirmed"),
        false_positive |-> Count("false_positive"),
        site_visit |-> Count("site_visit_required"),
        by_severity |->
            [s \in {"high", "medium", "low"} |->
                Cardinality({k \in DOMAIN all_encroachments :
                                /\ all_encroachments[k].status = "pending"
                                /\ all_encroachments[k].is_encroachment # 0
                                /\ all_encroachments[k].severity = s})],
        verified_percentage |->
            IF total > 0
            THEN Percent(Count("confirmed") + Count("false_positive"), total)
            ELSE Percent(0, 1)]

\* Detection results that flag a low record, two high records (two buildings),
\* or a medium and a high record (one building across two zones).
ReviewDetectionInputs ==
    { <<Building(0, <<10, 150, 100, 100>>, 10000)>>,
      <<Building(0, <<500, 150, 200, 200>>, 40000), Building(1, <<150, 150, 200, 200>>, 40000)>>,
      <<Building(0, <<150, 400, 100, 400>>, 40000)>> }

\* GET /api/admin/review/pending
admin_get_pending ==
    /\ \E pending \in get_pending_encroachments(encroachments) :
          view' = [op |-> "pending", pending |-> pending,
                   reviews |-> get_pending_reviews(pending)]
    /\ UNCHANGED <<encroachments, now, last, inflight, detections>>

\* GET /api/admin/statistics
admin_get_statistics ==
    /\ \E all_encroachments \in get_all_encroachments(encroachments) :
          view' = [op |-> "statistics",
                   stats |-> get_verification_statistics(all_encroachments)]
    /\ UNCHANGED <<encroachments, now, last, inflight, detections>>

\* One detection run a day at most, the three dispositions of the first two
\* records, and one read of the pending list or of the statistics at any
\* point of that history.
NextReview ==
    \/ view = NoView /\ Tick
    \/ /\ view = NoView
       /\ Len(detections) < MaxRuns
       /\ \A i \in DOMAIN encroachments : encroachments[i].created_at < now
       /\ \E buildings \in ReviewDetectionInputs : run_detection(buildings)
    \/ view = NoView /\ \E id \in DetectIdInputs : Approve(id, "admin1", PyNone)
    \/ view = NoView /\ \E id \in DetectIdInputs : RejectService(id, "admin2", <<"a">>)
    \/ view = NoView /\ \E id \in DetectIdInputs : SiteVisit(id, "admin1", PyNone)
    \/ view = NoView /\ admin_get_pending
    \/ view = NoView /\ admin_get_statistics

SpecReview == Init /\ [][NextReview]_vars

(* --------------------------------------------------------- pure functions *)
\* A call of calculate_rectangle_intersection or determine_severity that is
\* about to be made, with its arguments.
GeomCalls ==
    {[op |-> "call", fn |-> "intersect", rect1 |-> a, rect2 |-> b, overlap_percentage |-> 0] :
        a \in Rects, b \in Rects}
    \cup {[op |-> "call", fn |-> "classify", rect1 |-> <<>>, rect2 |-> <<>>,
           overlap_percentage |-> p] : p \in Percentages}

InitGeom ==
    /\ encroachments = <<>>
    /\ now = 1
    /\ last = NoCall
    /\ calls = [p \in Sessions |-> Idle]
    /\ applied = <<>>
    /\ detections = <<>>
    /\ view \in GeomCalls

\* calculate_rectangle_intersection(rect1, rect2) returns; it has no path that raises.
Intersect ==
    /\ view.op = "call" /\ view.fn = "intersect"
    /\ view' = [op |-> "intersect", rect1 |-> view.rect1, rect2 |-> view.rect2,
                raised |-> FALSE,
                intersection_area |->
                    calculate_rectangle_intersection(view.rect1, view.rect2)]
    /\ UNCHANGED <<encroachments, now, last, inflight, detections>>

\* determine_severity(overlap_percentage) returns.
Classify ==
    /\ view.op = "call" /\ view.fn = "classify"
    /\ view' = [op |-> "classify", overlap_percentage |-> view.overlap_percentage,
                severity |-> determine_severity(view.overlap_percentage)]
    /\ UNCHANGED <<encroachments, now, last, inflight, detections>>

NextGeom ==
    \/ Intersect
    \/ Classify

SpecGeom == InitGeom /\ [][NextGeom]_vars

(* ------------------------------------------------------- age and ranking *)
\* A created_at text that datetime.fromisoformat rejects.
Unparsable == 0 - 1

\* Timestamps at a finer grain: DayLength ticks make a day.  created_at is
\* written by SQLite's CURRENT_TIMESTAMP, which is UTC.
Stamps == 1..MaxStamp

\* The server's local time minus UTC, in ticks; it is below a day.
UtcOffsets == {0 - 1, 0, 1}

\* datetime.now(): the naive local time of the server.
datetime_now(utc, utc_offset) == utc + utc_offset

\* timedelta.days: whole days, rounded down (a negative delta has days < 0).
timedelta_days(delta) == delta \div DayLength

\* _calculate_days_pending at the finer grain: created_at absent or
\* unparsable gives 0, else (datetime.now() - created).days.
days_pending(created_at, local_now) ==
    IF created_at = NullAt THEN 0
    ELSE IF created_at = Unparsable THEN 0
    ELSE timedelta_days(local_now - created_at)

\* A call of _calculate_days_pending that is about to be made: the created_at
\* it is given, the time (UTC) of the call, not before a stored created_at,
\* and the offset of the server's clock.
DaysCalls ==
    {[op |-> "call", fn |-> "days", created_at |-> c, utc_now |-> u, utc_offset |-> z] :
        c \in {NullAt, Unparsable} \cup Stamps, u \in Stamps, z \in UtcOffsets}
    \ {call \in [op : {"call"}, fn : {"days"}, created_at : Stamps, utc_now : Stamps,
                 utc_offset : UtcOffsets] : call.utc_now < call.created_at}

\* Two pending records of one detection run, created together, with any two
\* overlap percentages and the severity the checker gave them.
RankTables ==
    {create_encroachment(
         create_encroachment(<<>>, 1, 0, 1, a, "Public Park Zone A", determine_severity(a), 1),
         1, 0, 1, b, "Road Reserve", determine_severity(b), 1) :
        a \in Percentages, b \in Percentages}

InitScore ==
    /\ now \in 1..MaxTime
    /\ last = NoCall
    /\ calls = [p \in Sessions |-> Idle]
    /\ applied = <<>>
    /\ detections = <<>>
    /\ \/ encroachments = <<>> /\ now = 1 /\ view \in DaysCalls
       \/ encroachments \in RankTables /\ view = NoView

\* _calculate_days_pending(created_at) returns; the bare except leaves no path
\* that raises.
DaysPending ==
    /\ view.op = "call" /\ view.fn = "days"
    /\ view' = [op |-> "days", created_at |-> view.created_at, utc_now |-> view.utc_now,
                utc_offset |-> view.utc_offset, raised |-> FALSE,
                days |-> days_pending(view.created_at,
                                      datetime_now(view.utc_now, view.utc_offset))]
    /\ UNCHANGED <<encroachments, now, last, inflight, detections>>

NextScore ==
    \/ DaysPending
    \/ view = NoView /\ admin_get_priority_cases(10)

SpecScore == InitScore /\ [][NextScore]_vars

(* ================================================================ claims *)
Rows == DOMAIN encroachments

IsPrefix(a, b) == Len(a) <= Len(b) /\ SubSeq(b, 1, Len(a)) = a

\* The text a remarks column shows: nothing for NULL.
Shown(remarks) == IF remarks = PyNone THEN <<>> ELSE remarks

Range(f) == {f[i] : i \in DOMAIN f}

\* C1: in every reachable state a record whose status is pending has
\* verified_by = NULL and verified_at = NULL.
C1_PendingIsUnverified ==
    \A i \in Rows :
        encroachments[i].status = "pending" =>
            /\ encroachments[i].verified_by = NullUser
            /\ encroachments[i].verified_at = NullAt

\* C2: reject with remarks absent or empty, and annotate with note absent or
\* empty, report failure and leave the table unchanged.
C2_MandatoryTextValidated ==
    [][\A id \in IdInputs, a \in Admins, r \in {PyNone, <<>>} :
          /\ RejectService(id, a, r) => (~last'.ret /\ encroachments' = encroachments)
          /\ AddNote(id, a, r) => (~last'.ret /\ encroachments' = encroachments)]_vars

\* C3: confirm, reject, requestSiteVisit and annotate on an id that matches no
\* stored record report failure; bulkConfirm lists every such id in failed_ids
\* and does not count it.
C3_UnknownIdFails ==
    /\ (last.op \in {"approve", "reject", "site_visit", "note", "route_reject", "route_note"}
        /\ ~Exists(encroachments, last.id)) => ~last.ret
    /\ last.op = "bulk" =>
          /\ \A k \in DOMAIN last.ids :
                ~Exists(encroachments, last.ids[k]) => last.ids[k] \in Range(last.failed_ids)
          /\ last.success_count =
                Cardinality({k \in DOMAIN last.ids : Exists(encroachments, last.ids[k])})

\* C4: annotate on an existing record leaves its status, verified_by and
\* verified_at as they were; only remarks changes.
C4_AnnotateKeepsVerification ==
    [][\A id \in IdInputs, a \in Admins, n \in NoteInputs :
          (AddNote(id, a, n) /\ Exists(encroachments, id)) =>
              /\ encroachments'[id].status = encroachments[id].status
              /\ encroachments'[id].verified_by = encroachments[id].verified_by
              /\ encroachments'[id].verified_at = encroachments[id].verified_at]_vars

\* C5: annotate is append-only: the remarks before the call are an unmodified
\* prefix of the remarks after it, and the new note is the last line.
C5_AnnotateAppendOnly ==
    [][\A id \in IdInputs, a \in Admins, n \in NoteInputs \ {PyNone, <<>>} :
          ((AddNote(id, a, n) \/ admin_add_note(id, a, n)) /\ Exists(encroachments, id)) =>
              LET before == Shown(encroachments[id].remarks)
                  after == encroachments'[id].remarks
                  line == strftime(now) \o <<" ">> \o n
              IN /\ IsPrefix(before, after)
                 /\ Len(after) >= Len(line)
                 /\ SubSeq(after, Len(after) - Len(line) + 1, Len(after)) = line]_vars

\* The four columns an admin transition writes.
Written(id, status, remarks, admin) ==
    /\ encroachments'[id].status = status
    /\ encroachments'[id].remarks = remarks
    /\ encroachments'[id].verified_by = admin
    /\ encroachments'[id].verified_at = now

NoText == {PyNone, <<>>}

\* C6: on an existing record confirm sets confirmed, reject (with remarks)
\* false_positive and requestSiteVisit site_visit_required; remarks become exactly
\* the supplied text, or the action's canned default when confirm or
\* requestSiteVisit get none; verified_by is the acting admin, verified_at the
\* current time.
C6_TransitionEffects ==
    [][(now' = now
        /\ last'.op \in {"approve", "reject", "route_reject", "site_visit"}
        /\ Exists(encroachments, last'.id)) =>
          LET id == last'.id IN
          \A a \in Admins, r \in TextInputs :
              /\ (last'.op = "approve" /\ Approve(id, a, r)) =>
                    /\ last'.ret
                    /\ Written(id, "confirmed",
                               IF r \in NoText THEN DefaultApprove ELSE r, a)
              /\ (last'.op = "reject" /\ r \notin NoText /\ RejectService(id, a, r)) =>
                    /\ last'.ret
                    /\ Written(id, "false_positive", r, a)
              /\ (last'.op = "route_reject" /\ r \notin NoText /\ admin_reject(id, a, r)) =>
                    /\ last'.ret
                    /\ Written(id, "false_positive", r, a)
              /\ (last'.op = "site_visit" /\ SiteVisit(id, a, r)) =>
                    /\ last'.ret
                    /\ Written(id, "site_visit_required",
                               IF r \in NoText THEN DefaultSiteVisit ELSE r, a)]_vars

\* A confirm without text on a record that an earlier call had already disposed of.
C6_Witness ==
    /\ last.op = "approve" /\ last.ret /\ Exists(encroachments, last.id)
    /\ encroachments[last.id].status = "confirmed"
    /\ encroachments[last.id].remarks = DefaultApprove
    /\ encroachments[last.id].verified_by = "admin2"
    /\ encroachments[last.id].verified_at = now
    /\ encroachments[last.id].verified_at > encroachments[last.id].created_at

\* C8: for every list of ids, success_count + len(failed_ids) = len(ids).
C8_BulkCountsAddUp ==
    last.op = "bulk" => last.success_count + Len(last.failed_ids) = Len(last.ids)

\* A bulk call in which one id failed and another was counted.
C8_Witness ==
    /\ last.op = "bulk"
    /\ last.success_count > 0
    /\ last.failed_ids # <<>>

\* C7: under every interleaving of concurrent calls on one record, each
\* readable state of the record holds status, remarks, verified_by and
\* verified_at written by one single call (or the creation values), and these
\* are the values of the call whose update was applied last.
C7_AtomicLastWriteWins ==
    Exists(encroachments, 1) =>
        LET row == encroachments[1] IN
        IF applied = <<>>
        THEN /\ row.status = "pending"
             /\ row.remarks = PyNone
             /\ row.verified_by = NullUser
             /\ row.verified_at = NullAt
        ELSE LET p == applied[Len(applied)] IN
             /\ row.status = calls[p].status
             /\ row.remarks = calls[p].remarks
             /\ row.verified_by = AdminOf(p)
             /\ row.verified_at = calls[p].at

\* Two transitions to different statuses were in flight together, the one that
\* started first was applied last, and every call has finished.
C7_Witness ==
    /\ \A p \in Sessions : calls[p].pc = "done"
    /\ Len(applied) >= 2
    /\ LET first == applied[Len(applied) - 1]
           final == applied[Len(applied)]
       IN /\ {calls[first].op, calls[final].op} \subseteq {"approve", "reject", "site_visit"}
          /\ calls[first].status # calls[final].status
          /\ calls[final].at < calls[first].at
          /\ encroachments[1].status = calls[final].status

\* C9: bulkConfirm is best-effort: afterwards every existing record whose id is
\* in ids is confirmed, wherever failing ids sit in the list, and every record
\* whose id is not in ids is unchanged.
C9_BulkBestEffort ==
    [][(last'.op = "bulk" /\ now' = now) =>
          \A i \in Rows :
              IF i \in Range(last'.ids)
              THEN encroachments'[i].status = "confirmed"
              ELSE encroachments'[i] = encroachments[i]]_vars

\* A failing id came first, the record after it was confirmed, the record not
\* listed kept its rejection.
C9_Witness ==
    /\ last.op = "bulk"
    /\ last.ids = <<Unbindable, 1>>
    /\ last.failed_ids = <<Unbindable>>
    /\ Len(encroachments) = 2
    /\ encroachments[1].status = "confirmed"
    /\ encroachments[2].status = "false_positive"

\* One admin action can take record i to status s.
CanReach(i, s) == ENABLED (Next /\ encroachments'[i].status = s)

Targets(c) == IF c.op = "bulk" THEN Range(c.ids) ELSE {c.id}

\* C11 (as claimed): across any sequence of confirm, reject, requestSiteVisit,
\* annotate and bulkConfirm calls the remarks before each operation are a
\* prefix of the remarks after it.
C11_RemarksAppendOnly ==
    [][\A i \in Rows : IsPrefix(Shown(encroachments[i].remarks), encroachments'[i].remarks)]_vars

\* C11 (amended): only annotate extends the remarks: the remarks it read, as
\* the f-string formats them and stripped, are a proper prefix of the remarks
\* it writes.  confirm, bulkConfirm, reject and requestSiteVisit replace the
\* remarks by their text or default, so the notes made before are lost.
C11_OnlyAnnotateExtends ==
    [][\A i \in Rows :
          encroachments'[i].remarks # encroachments[i].remarks =>
              LET before == encroachments[i].remarks
                  after == encroachments'[i].remarks
              IN CASE last'.op = "note" ->
                          /\ IsPrefix(strip(Format(before)), after)
                          /\ Len(after) > Len(strip(Format(before)))
                   [] last'.op \in {"approve", "bulk"} -> after = DefaultApprove
                   [] last'.op = "reject" -> after = <<"a">>
                   [] last'.op = "site_visit" -> after = DefaultSiteVisit
                   [] OTHER -> FALSE]_vars

\* A rejection has replaced the remarks of record 1, and record 2 carries a
\* note appended to the text of its confirmation.
C11_Witness ==
    /\ Len(encroachments) >= 2
    /\ last.op = "note" /\ last.id = 2 /\ last.ret
    /\ encroachments[1].remarks = <<"a">>
    /\ encroachments[2].remarks = DefaultApprove \o <<"\n">> \o strftime(now) \o <<" ", "n">>

\* The columns no admin operation writes.
Kept(row) ==
    <<row.id, row.detection_id, row.building_id, row.is_encroachment,
      row.overlap_percentage, row.zone_name, row.severity, row.created_at>>

\* C12: an admin operation on id X changes at most status, remarks, verified_by
\* and verified_at of X: the other columns of X and every other record stay as
\* they were, and no record is created or deleted, also when X does not exist.
C12_AdminFrame ==
    [][detections' = detections =>
          /\ Len(encroachments') = Len(encroachments)
          /\ \A i \in Rows :
                /\ Kept(encroachments'[i]) = Kept(encroachments[i])
                /\ i \notin Targets(last') => encroachments'[i] = encroachments[i]]_vars

\* Record 2 of two records in different zones was rejected by the call just
\* made, record 1 keeps its confirmation.
C12_Witness ==
    /\ Len(encroachments) >= 2
    /\ last.op = "reject" /\ last.id = 2
    /\ encroachments[2].status = "false_positive"
    /\ encroachments[1].status = "confirmed"
    /\ encroachments[1].zone_name # encroachments[2].zone_name

(* ------------------------------------------------------------- detection *)
\* C13: every persisted record has is_encroachment = 1, overlap_percentage >=
\* OVERLAP_THRESHOLD and severity = determine_severity(overlap_percentage), also
\* after any sequence of admin operations.
C13_PersistedRecordFacts ==
    \A i \in Rows :
        /\ encroachments[i].is_encroachment = 1
        /\ encroachments[i].overlap_percentage >= OVERLAP_THRESHOLD
        /\ encroachments[i].severity = determine_severity(encroachments[i].overlap_percentage)

\* A record exactly at the threshold that an admin has since rejected.
C13_Witness ==
    \E i \in Rows :
        /\ encroachments[i].overlap_percentage = OVERLAP_THRESHOLD
        /\ encroachments[i].severity = "low"
        /\ encroachments[i].status = "false_positive"

\* The (footprint, zone) pair intersects and its overlap reaches the threshold.
Qualifies(building, zone) ==
    LET intersection_area == calculate_rectangle_intersection(building.bbox, zone_rect(zone))
    IN /\ intersection_area > 0
       /\ intersection_area * 100 >= OVERLAP_THRESHOLD * building.area

C15_PercentageInRange ==
    \A i \in Rows :
        /\ encroachments[i].overlap_percentage >= 0
        /\ encroachments[i].overlap_percentage <= 100

Inside(bbox, zone) ==
    /\ bbox[1] >= zone.coordinates[1]
    /\ bbox[2] >= zone.coordinates[2]
    /\ bbox[1] + bbox[3] <= zone.coordinates[3]
    /\ bbox[2] + bbox[4] <= zone.coordinates[4]

Disjoint(bbox, zone) ==
    \/ bbox[1] + bbox[3] <= zone.coordinates[1]
    \/ bbox[1] >= zone.coordinates[3]
    \/ bbox[2] + bbox[4] <= zone.coordinates[2]
    \/ bbox[2] >= zone.coordinates[4]

\* C16: a footprint whose bbox lies entirely inside a zone gets exactly 100
\* percent for it; a footprint disjoint from a zone, or touching it along an
\* edge, gets no record for it.
C16_InsideIsHundredDisjointIsNone ==
    detections # <<>> =>
        \A b \in DOMAIN detections[1], z \in DOMAIN PUBLIC_ZONES :
            LET building == detections[1][b]
                zone == PUBLIC_ZONES[z]
                records == {i \in Rows : /\ encroachments[i].building_id = building.id
                                         /\ encroachments[i].zone_name = zone.name}
            IN /\ Inside(building.bbox, zone) =>
                    /\ records # {}
                    /\ \A i \in records : encroachments[i].overlap_percentage = 100
               /\ Disjoint(building.bbox, zone) => records = {}

(* -------------------------------------------------------- pure functions *)
ValidRect(r) == r[3] > 0 /\ r[4] > 0

RectArea(r) == r[3] * r[4]

\* The unit cells a rectangle covers.
Cells(r) == {<<i, j>> : i \in r[1]..(r[1] + r[3] - 1), j \in r[2]..(r[2] + r[4] - 1)}

\* C17: for rectangles with non-negative origin and positive width and height
\* the intersection area is between 0 and the smaller of the two areas, is the
\* same in either argument order, and is the area the two rectangles share.
C17_IntersectionBounds ==
    (view.op = "intersect" /\ ValidRect(view.rect1) /\ ValidRect(view.rect2)) =>
        /\ view.intersection_area >= 0
        /\ view.intersection_area <= min(RectArea(view.rect1), RectArea(view.rect2))
        /\ view.intersection_area = calculate_rectangle_intersection(view.rect2, view.rect1)
        /\ view.intersection_area = Cardinality(Cells(view.rect1) \cap Cells(view.rect2))

\* Two rectangles that overlap in part of each.
C17_Witness ==
    /\ view.op = "intersect" /\ ValidRect(view.rect1) /\ ValidRect(view.rect2)
    /\ view.intersection_area > 0
    /\ view.intersection_area < min(RectArea(view.rect1), RectArea(view.rect2))

Rank(severity) ==
    CASE severity = "low" -> 1
      [] severity = "medium" -> 2
      [] severity = "high" -> 3

\* C18: determine_severity returns high from 50 up, medium from 25 to below
\* 50, low below 25; it returns a tier for every input and never a lower tier
\* for a larger percentage.
C18_ClassifyTotalMonotone ==
    view.op = "classify" =>
        LET p == view.overlap_percentage IN
        /\ view.severity \in {"low", "medium", "high"}
        /\ view.severity = "high" <=> p >= 50
        /\ view.severity = "medium" <=> (25 <= p /\ p < 50)
        /\ \A q \in Percentages :
              q <= p => Rank(determine_severity(q)) <= Rank(view.severity)

\* The lower boundary of the high tier.
C18_Witness ==
    /\ view.op = "classify"
    /\ view.overlap_percentage = 50
    /\ view.severity = "high"

\* C19: given a rectangle with width <= 0 or height <= 0 the intersection
\* fails fast: it raises and returns no area.
C19_InvalidGeometryFailsFast ==
    (view.op = "intersect" /\ ~(ValidRect(view.rect1) /\ ValidRect(view.rect2))) =>
        view.raised

(* -------------------------------------------------------- priority queue *)
SeverityWeight(severity) ==
    CASE severity = "high" -> 100
      [] severity = "medium" -> 50
      [] severity = "low" -> 0

\* Where the record with this id stands in a list of rows.
Position(rows, id) == CHOOSE k \in DOMAIN rows : rows[k].id = id

\* C20: every returned record carries score = severityWeight(severity) +
\* daysPending + overlap_percentage with weights 100, 50, 0; the records come
\* in non-increasing score order, and two records of equal score keep the
\* order in which the persistence layer supplied them.
C20_ScoreAndStableOrder ==
    view.op = "priority" =>
        LET cases == view.cases IN
        /\ \A k \in DOMAIN cases :
              cases[k].priority_score =
                  SeverityWeight(cases[k].severity)
                  + (now - cases[k].created_at)
                  + cases[k].overlap_percentage
        /\ \A j \in DOMAIN cases, k \in DOMAIN cases :
              j < k =>
                  /\ cases[j].priority_score >= cases[k].priority_score
                  /\ cases[j].priority_score = cases[k].priority_score =>
                        Position(view.pending, cases[j].id)
                            < Position(view.pending, cases[k].id)

\* Two records of equal score that the query supplied with the younger id
\* first, ahead of a record of a lower score, all of them a day old or more.
C20_Witness ==
    /\ view.op = "priority"
    /\ Len(view.cases) >= 3
    /\ view.cases[1].priority_score = view.cases[2].priority_score
    /\ view.cases[1].id > view.cases[2].id
    /\ view.cases[2].priority_score > view.cases[3].priority_score
    /\ now > view.cases[1].created_at

\* C21: for every integer limit a caller can supply and n ranked records, the
\* priority queue returns a prefix of the full ranking of length
\* min(max(limit, 0), n), never more than limit records, each carrying its
\* computed priority_score.
C21_LimitPrefix ==
    view.op = "priority" =>
        LET n == Len(view.pending)
            cases == view.cases
            full == get_high_priority_cases(view.pending, n, now)
        IN /\ Len(cases) = min(max(view.limit, 0), n)
           /\ Len(cases) <= max(view.limit, 0)
           /\ cases = SubSeq(full, 1, Len(cases))
           /\ \A k \in DOMAIN cases : "priority_score" \in DOMAIN cases[k]

(* ------------------------------------------------- review lists and counts *)
\* The stored records with a given status.
WithStatus(status) == {i \in Rows : encroachments[i].status = status}

\* C22: the set of records the priority queue ranks (with a limit of at least
\* the number of records) is exactly the set of stored records with status
\* pending, the same set the statistics count as pending, in every reachable
\* state.
C22_RankedAreThePending ==
    /\ \A pending \in get_pending_encroachments(encroachments) :
          LET cases == get_high_priority_cases(pending, Len(encroachments), now)
          IN /\ {cases[k].id : k \in DOMAIN cases} = WithStatus("pending")
             /\ Len(cases) = Cardinality(WithStatus("pending"))
    /\ \A all_encroachments \in get_all_encroachments(encroachments) :
          get_verification_statistics(all_encroachments).pending
              = Cardinality(WithStatus("pending"))

\* Three stored records of which one has been confirmed and one rejected: the
\* queue ranks the one that is left.
C22_Witness ==
    /\ Len(encroachments) = 3
    /\ WithStatus("confirmed") # {}
    /\ WithStatus("false_positive") # {}
    /\ \E pending \in get_pending_encroachments(encroachments) :
          Len(get_high_priority_cases(pending, Len(encroachments), now)) = 1

\* C23: the pending list holds the pending records ordered by severity tier
\* only: every high record precedes every medium record, every medium precedes
\* every low, and records of the same tier keep the order in which the
\* persistence query returned them.
C23_PendingListByTier ==
    view.op = "pending" =>
        LET reviews == view.reviews IN
        /\ Len(reviews) = Len(view.pending)
        /\ Range(reviews) = Range(view.pending)
        /\ {reviews[k].id : k \in DOMAIN reviews} = WithStatus("pending")
        /\ \A j \in DOMAIN reviews, k \in DOMAIN reviews :
              j < k =>
                  /\ Rank(reviews[j].severity) >= Rank(reviews[k].severity)
                  /\ reviews[j].severity = reviews[k].severity =>
                        Position(view.pending, reviews[j].id)
                            < Position(view.pending, reviews[k].id)

\* A list of three or more that the query supplied in another order, with two
\* records of one tier created on different days and a record of another tier.
C23_Witness ==
    /\ view.op = "pending"
    /\ Len(view.reviews) >= 3
    /\ view.reviews # view.pending
    /\ \E j \in DOMAIN view.reviews, k \in DOMAIN view.reviews :
          /\ j < k
          /\ view.reviews[j].severity = view.reviews[k].severity
          /\ view.reviews[j].created_at # view.reviews[k].created_at
    /\ view.reviews[1].severity # view.reviews[Len(view.reviews)].severity

\* C24: verified_percentage = (confirmed + false_positive) / total * 100: it is
\* 0 when there are no records, 100 exactly when total > 0 and every record is
\* confirmed or false_positive, and strictly below 100 whenever some record is
\* pending or site_visit_required.
C24_VerifiedPercentage ==
    view.op = "statistics" =>
        LET vp == view.stats.verified_percentage
            total == Len(encroachments)
            verified == Cardinality(WithStatus("confirmed") \cup WithStatus("false_positive"))
        IN /\ vp.den > 0
           /\ total > 0 => vp.num * total = verified * 100 * vp.den
           /\ total = 0 => vp.num = 0
           /\ vp.num = 100 * vp.den <=> (total > 0 /\ verified = total)
           /\ (WithStatus("pending") \cup WithStatus("site_visit_required")) # {}
                 => vp.num < 100 * vp.den

\* Statistics of a table in which a record is verified and another one
\* awaits a site visit.
C24_Witness ==
    /\ view.op = "statistics"
    /\ WithStatus("site_visit_required") # {}
    /\ WithStatus("false_positive") # {}
    /\ view.stats.verified_percentage.num > 0
    /\ view.stats.verified_percentage.num < 100 * view.stats.verified_percentage.den

\* C25: the statistics report total = number of stored records, each status
\* count = number of records with that status (so the four status counts sum
\* to total), and by_severity[t] = number of records with status pending,
\* is_encroachment true and severity t (so the by_severity counts sum to at
\* most the pending count).
C25_StatisticsCounts ==
    view.op = "statistics" =>
        LET stats == view.stats IN
        /\ stats.total = Len(encroachments)
        /\ stats.pending = Cardinality(WithStatus("pending"))
        /\ stats.confirmed = Cardinality(WithStatus("confirmed"))
        /\ stats.false_positive = Cardinality(WithStatus("false_positive"))
        /\ stats.site_visit = Cardinality(WithStatus("site_visit_required"))
        /\ stats.pending + stats.confirmed + stats.false_positive + stats.site_visit
              = stats.total
        /\ \A t \in {"high", "medium", "low"} :
              stats.by_severity[t] =
                  Cardinality({i \in WithStatus("pending") :
                                  /\ encroachments[i].is_encroachment = 1
                                  /\ encroachments[i].severity = t})
        /\ stats.by_severity["high"] + stats.by_severity["medium"]
              + stats.by_severity["low"] <= stats.pending

\* Statistics of a table with a confirmed high record next to pending ones.
C25_Witness ==
    /\ view.op = "statistics"
    /\ view.stats.total >= 3
    /\ view.stats.pending >= 1
    /\ \E i \in WithStatus("confirmed") : encroachments[i].severity = "high"
    /\ view.stats.by_severity["high"] + view.stats.by_severity["medium"] >= 1

(* ------------------------------------------------------- age and ranking *)
\* C26: daysPending never raises: it returns 0 when created_at is absent or
\* unparsable, and otherwise the integer number of whole days elapsed from
\* created_at to now, which is never negative for any stored created_at.
C26_DaysPendingWholeDays ==
    view.op = "days" =>
        /\ ~view.raised
        /\ view.created_at \in {NullAt, Unparsable} => view.days = 0
        /\ view.created_at \in Stamps =>
              /\ view.days = (view.utc_now - view.created_at) \div DayLength
              /\ view.days >= 0

\* C30: for any two pending records with equal daysPending whose severity is
\* classify(overlap_percentage) with overlap in [0, 100], the record of the
\* higher tier has a strictly greater priority score, so the priority queue
\* never places a lower-tier record ahead of a higher-tier record of the same
\* age.
C30_TierDominatesScore ==
    view.op = "priority" =>
        LET cases == view.cases IN
        \A j \in DOMAIN cases, k \in DOMAIN cases :
            ( /\ cases[j].created_at = cases[k].created_at
              /\ cases[j].overlap_percentage \in 0..100
              /\ cases[k].overlap_percentage \in 0..100
              /\ cases[j].severity = determine_severity(cases[j].overlap_percentage)
              /\ cases[k].severity = determine_severity(cases[k].overlap_percentage)
              /\ Rank(cases[j].severity) > Rank(cases[k].severity) )
            => /\ cases[j].priority_score > cases[k].priority_score
               /\ j < k

\* A high record of the smallest overlap ranked ahead of a medium record of
\* the largest one, which the query supplied first.
C30_Witness ==
    /\ view.op = "priority"
    /\ Len(view.cases) = 2
    /\ view.cases[1].severity = "high" /\ view.cases[1].overlap_percentage = 50
    /\ view.cases[2].severity = "medium" /\ view.cases[2].overlap_percentage = 49
    /\ view.pending[1].severity = "medium"
    /\ now > view.cases[1].created_at

(* ----------------------------------------------------------- first note *)
\* C29: the first annotate on a freshly created record, whose remarks column
\* holds no value (null), produces remarks consisting of exactly the one line
\* "[<timestamp>] <note>", with no text in front of it.
C29_FirstNoteIsOneLine ==
    [][(/\ last'.op \in {"note", "route_note"}
        /\ last'.ret
        /\ Exists(encroachments, last'.id)
        /\ encroachments[last'.id].remarks = PyNone)
       => \E n \in NoteInputs :
             encroachments'[last'.id].remarks = strftime(now) \o <<" ">> \o Format(n)]_vars

(* ------------------------------------------------------ concurrent notes *)
\* C27: if a confirm, reject or requestSiteVisit on a record is applied
\* between the read and the write of a concurrent annotate on the same record,
\* then after both finish the record's status is the one set by that
\* transition: annotate never writes back the stale status it read and never
\* discards the transition's remarks.  Stated at the annotate's write: when
\* the update applied last before it was a transition's, the record keeps that
\* transition's status and its remarks stay in front (an annotate that read
\* the row after the transition keeps both in any case).
C27_AnnotateKeepsConcurrentTransition ==
    [][\A p \in Sessions :
          ( /\ calls[p].op = "note"
            /\ calls[p].pc = "write"
            /\ calls'[p].pc = "done"
            /\ Exists(encroachments, 1)
            /\ applied # <<>>
            /\ calls[applied[Len(applied)]].op # "note" )
          => LET q == applied[Len(applied)] IN
             /\ encroachments'[1].status = calls[q].status
             /\ IsPrefix(calls[q].remarks, encroachments'[1].remarks)]_vars

\* How many times a token stands in a text.
Occurrences(token, s) == Cardinality({i \in DOMAIN s : s[i] = token})

\* C28: when two annotate calls on the same record run concurrently, under
\* every interleaving of their reads and writes the final remarks contain both
\* notes and all remarks that existed before either call.  The two calls are
\* the only ones made on the record, which had no remarks before them.
C28_ConcurrentNotesBothKept ==
    \A p \in Sessions, q \in Sessions :
        ( /\ p # q
          /\ calls[p].op = "note" /\ calls[q].op = "note"
          /\ calls[p].pc = "done" /\ calls[q].pc = "done"
          /\ applied \in {<<p, q>>, <<q, p>>} )
        => \A token \in Range(calls[p].note) \cup Range(calls[q].note) :
              Occurrences(token, encroachments[1].remarks)
                  >= Occurrences(token, calls[p].note) + Occurrences(token, calls[q].note)

====
